---- MODULE Spec2Model ----
(***************************************************************************)
(* State-machine model of the user-directory backend (backend/server.js)   *)
(* and of the UserTable pages that call it and listen to its signal.       *)
(*                                                                         *)
(* Every HTTP request is a process held in a slot of reqs.  A handler      *)
(* suspends at each `await pool.query(...)`; the statements of concurrent  *)
(* requests execute at the store in any order (actions Db...).  Handler    *)
(* code that follows a statement and reads nothing but its result is part  *)
(* of the statement's step; handler code that reads shared state (the      *)
(* clock in jwt.sign, the connected sockets in io.emit) is a step of its   *)
(* own (LoginSign, EmitRespond).  The awaits on bcrypt touch no shared     *)
(* state and are folded into the step around them.                         *)
(*                                                                         *)
(* A response is observed in the state in which it is sent (pc = "done")   *)
(* and leaves the server before the next server step; likewise an emitted  *)
(* signal is delivered or lost before the next server step (Quiet).        *)
(*                                                                         *)
(* A statement the store rejects (action DbFail, specification SpecFault)  *)
(* has no effect on the table: single statements are atomic at the store.  *)
(***************************************************************************)
EXTENDS Integers, Sequences, FiniteSets, TLC

\* ---------------------------------------------------------------- bounds
MaxReqs == 2
MaxTicks == 2
MaxTokens == 2

\* ------------------------------------------------------ program constants
ExpiresIn == 3600
SaltRounds == 10

\* ------------------------------------------------------------ input sets
Emails == {"a@x.com", "b@x.com"}
Passwords == {"pw1", "pw2"}
Names == {"Alice"}
Missing == ""
Sockets == {"s1", "s2"}
Reqs == 1..MaxReqs
TickStep == ExpiresIn \div 2
JWT_SECRET == "your_secret_key"

\* ------------------------------------------------------- library helpers
BcryptHash(password) ==
    [alg |-> "bcrypt", rounds |-> SaltRounds, plain |-> password]

BcryptCompare(password, hash) ==
    hash.alg = "bcrypt" /\ hash.plain = password

\* Mutation of JwtSign: the payload is signed without the user's id.
JwtSignNoId(payload, t) ==
    [id |-> 0, email |-> payload.email,
     iat |-> t, exp |-> t + ExpiresIn, key |-> JWT_SECRET]

JwtSign(payload, t) ==
    [id |-> payload.id, email |-> payload.email,
     iat |-> t, exp |-> t + ExpiresIn, key |-> JWT_SECRET]

\* Mutation of JwtVerify: a token is still accepted at its expiry time.
JwtVerifyLate(token, t) ==
    token.key = JWT_SECRET /\ t <= token.exp

JwtVerify(token, t) ==
    token.key = JWT_SECRET /\ t < token.exp

\* A token signed with another key: what a client can fabricate.
Forged ==
    [id |-> 1, email |-> "a@x.com", iat |-> 0,
     exp |-> MaxTicks * TickStep + ExpiresIn, key |-> "not_the_secret"]

NoToken == [id |-> 0, email |-> "", iat |-> 0, exp |-> 0, key |-> ""]
NoUser == [id |-> 0, email |-> ""]
NoAuth == [scheme |-> "none", token |-> NoToken]
NoResp == [status |-> 0, error |-> "", token |-> NoToken, users |-> <<>>]

Resp(status, error) ==
    [status |-> status, error |-> error, token |-> NoToken, users |-> <<>>]

\* ----------------------------------------------------------------- state
VARIABLES
    users,      \* the users table: a sequence of rows, users[i].id = i
    reqs,       \* request slots: the handlers in flight and their responses
    now,        \* the clock, in seconds
    issued,     \* tokens that login responses handed to clients and they still hold
    connected,  \* sockets connected to the broadcast hub
    inbox,      \* per socket: 'usersUpdated' emits not yet delivered
    c2s,        \* 'usersUpdated' events sent by clients, in flight to the server
    clients     \* per socket: the state of the UserTable page behind it

vars == <<users, reqs, now, issued, connected, inbox, c2s, clients>>

\* The signal carries no payload: what a listener receives as its argument.
Undefined == <<"undefined">>

\* No handleAction call is running.  Of a running call, action is its argument,
\* ids and token are the selectedUsers and the token it was called with (the
\* loop reads the values of the render in which the button was clicked), pos is
\* the position in ids of the id being processed and slot the request slot
\* whose response the loop awaits (0: the request has not reached the server).
NoBatch ==
    [action |-> "none", ids |-> <<>>, token |-> NoToken, pos |-> 0, slot |-> 0]

\* A socket with no page behind it.  table tells which of the two UserTable
\* components the page runs, token is the token the page holds (NoToken:
\* none), roster is its users state, due counts its fetchUsers calls whose
\* request has not reached the server, slot is the request slot whose response
\* it awaits (0: none).  selected is its selectedUsers state and batch the
\* handleAction call in progress.
NoClient ==
    [table |-> "none", token |-> NoToken, roster |-> <<>>, due |-> 0, slot |-> 0,
     selected |-> <<>>, batch |-> NoBatch]

\* Fields wrote, emits and at are history: wrote tells whether a statement of
\* the request changed the table, emits counts its io.emit calls, at is the
\* time a list request arrived.
Idle ==
    [kind |-> "idle", pc |-> "idle", name |-> "", email |-> "", password |-> "",
     auth |-> NoAuth, target |-> 0, user |-> NoUser, token |-> NoToken,
     resp |-> NoResp, wrote |-> FALSE, emits |-> 0, at |-> 0]

Init ==
    /\ users = <<>>
    /\ reqs = [r \in Reqs |-> Idle]
    /\ now = 0
    /\ issued = {}
    /\ connected = {}
    /\ inbox = [s \in Sockets |-> 0]
    /\ c2s = 0
    /\ clients = [s \in Sockets |-> NoClient]

\* --------------------------------------------------------- store helpers
Ids == 1..Len(users)

RowsByEmail(email) ==
    SelectSeq(users, LAMBDA u : u.email = email)

StatusOfEmail(email) ==
    IF RowsByEmail(email) = <<>> THEN "none" ELSE RowsByEmail(email)[1].status

StatusOfId(id) ==
    IF id \in Ids THEN users[id].status ELSE "none"

\* The lowest free slot takes the next request.
Free(r) ==
    /\ reqs[r].kind = "idle"
    /\ \A q \in Reqs : q < r => reqs[q].kind # "idle"

\* No response and no signal is waiting to leave the server.
Quiet ==
    /\ \A r \in Reqs : reqs[r].pc # "done"
    /\ \A s \in Sockets : inbox[s] = 0
    /\ c2s = 0

Put(r, rec) == reqs' = [reqs EXCEPT ![r] = rec]

Finish(r, resp) == Put(r, [reqs[r] EXCEPT !.pc = "done", !.resp = resp])

\* ------------------------------------------------- POST /api/register
RegisterStart(r, name, email, password) ==
    /\ Quiet /\ Free(r)
    /\ LET q == [Idle EXCEPT !.kind = "register", !.name = name,
                             !.email = email, !.password = password]
       IN  IF name = Missing \/ email = Missing \/ password = Missing
           THEN Put(r, [q EXCEPT !.pc = "done",
                                 !.resp = Resp(400, "All fields are required.")])
           ELSE Put(r, [q EXCEPT !.pc = "q1"])
    /\ UNCHANGED <<clients, users, now, issued, connected, inbox, c2s>>

\* Mutation of Insert: no unique constraint on email.
InsertNoUnique(name, email, hashedPassword) ==
    [code |-> "none",
     table |-> Append(users, [id |-> Len(users) + 1, name |-> name,
                              email |-> email, password |-> hashedPassword,
                              status |-> "active", last_login |-> now])]

\* Mutation of Insert: the duplicate is reported after the row went in.
InsertThenReport(name, email, hashedPassword) ==
    [code |-> IF RowsByEmail(email) # <<>> THEN "23505" ELSE "none",
     table |-> Append(users, [id |-> Len(users) + 1, name |-> name,
                              email |-> email, password |-> hashedPassword,
                              status |-> "active", last_login |-> now])]

\* Mutation of Insert: a duplicate email overwrites the row (an upsert), which
\* makes the account active again.
InsertUpsert(name, email, hashedPassword) ==
    IF RowsByEmail(email) # <<>>
    THEN [code |-> "none",
          table |-> [i \in Ids |-> IF users[i].email = email
                                   THEN [users[i] EXCEPT !.password = hashedPassword,
                                                         !.status = "active"]
                                   ELSE users[i]]]
    ELSE [code |-> "none",
          table |-> Append(users, [id |-> Len(users) + 1, name |-> name,
                                   email |-> email, password |-> hashedPassword,
                                   status |-> "active", last_login |-> now])]

\* INSERT INTO users (...) VALUES ($1, $2, $3, 'active', NOW()): the id is
\* assigned by the store; a duplicate email is rejected with code 23505.
Insert(name, email, hashedPassword) ==
    IF RowsByEmail(email) # <<>>
    THEN [code |-> "23505", table |-> users]
    ELSE [code |-> "none",
          table |-> Append(users, [id |-> Len(users) + 1, name |-> name,
                                   email |-> email, password |-> hashedPassword,
                                   status |-> "active", last_login |-> now])]

RegisterReply(code) ==
    CASE code = "none" -> Resp(201, "")
      [] code = "23505" -> Resp(409, "Email already exists.")
      [] OTHER -> Resp(500, "Could not register user.")

DbInsertUser(r) ==
    /\ Quiet
    /\ reqs[r].kind = "register" /\ reqs[r].pc = "q1"
    /\ LET ins == Insert(reqs[r].name, reqs[r].email, BcryptHash(reqs[r].password))
       IN  /\ users' = ins.table
           /\ Put(r, [reqs[r] EXCEPT !.pc = "done", !.resp = RegisterReply(ins.code),
                                     !.wrote = (ins.table # users)])
    /\ UNCHANGED <<clients, now, issued, connected, inbox, c2s>>

\* ---------------------------------------------------- POST /api/login
InFlightLogins == {q \in Reqs : reqs[q].kind = "login"}

LoginStart(r, email, password) ==
    /\ Quiet /\ Free(r)
    /\ Cardinality(issued) + Cardinality(InFlightLogins) < MaxTokens
    /\ LET q == [Idle EXCEPT !.kind = "login", !.email = email, !.password = password]
       IN  IF email = Missing \/ password = Missing
           THEN Put(r, [q EXCEPT !.pc = "done",
                                 !.resp = Resp(400, "Email and password are required.")])
           ELSE Put(r, [q EXCEPT !.pc = "q1"])
    /\ UNCHANGED <<clients, users, now, issued, connected, inbox, c2s>>

\* Mutation of LoginCheck: the password is verified before the status is looked at.
LoginCheckPasswordFirst(rows, password) ==
    IF rows = <<>> THEN Resp(401, "Invalid email or password.")
    ELSE IF ~BcryptCompare(password, rows[1].password)
         THEN Resp(401, "Invalid email or password.")
    ELSE IF rows[1].status = "blocked" THEN Resp(403, "User is blocked.")
    ELSE NoResp

\* What the handler does with the result of SELECT * FROM users WHERE email = $1,
\* up to the call of jwt.sign.
LoginCheck(rows, password) ==
    IF rows = <<>> THEN Resp(401, "Invalid email or password.")
    ELSE IF rows[1].status = "blocked" THEN Resp(403, "User is blocked.")
    ELSE IF ~BcryptCompare(password, rows[1].password)
         THEN Resp(401, "Invalid email or password.")
    ELSE NoResp

DbSelectByEmail(r) ==
    /\ Quiet
    /\ reqs[r].kind = "login" /\ reqs[r].pc = "q1"
    /\ LET rows == RowsByEmail(reqs[r].email)
           reply == LoginCheck(rows, reqs[r].password)
       IN  IF reply # NoResp
           THEN Finish(r, reply)
           ELSE Put(r, [reqs[r] EXCEPT !.pc = "r1",
                           !.user = [id |-> rows[1].id, email |-> rows[1].email]])
    /\ UNCHANGED <<clients, users, now, issued, connected, inbox, c2s>>

LoginSign(r) ==
    /\ Quiet
    /\ reqs[r].kind = "login" /\ reqs[r].pc = "r1"
    /\ Put(r, [reqs[r] EXCEPT !.pc = "q2", !.token = JwtSign(reqs[r].user, now)])
    /\ UNCHANGED <<clients, users, now, issued, connected, inbox, c2s>>

\* UPDATE users SET last_login = NOW() WHERE id = $1
UpdateLastLogin(id) ==
    [i \in Ids |-> IF users[i].id = id
                   THEN [users[i] EXCEPT !.last_login = now]
                   ELSE users[i]]

DbUpdateLastLogin(r) ==
    /\ Quiet
    /\ reqs[r].kind = "login" /\ reqs[r].pc = "q2"
    /\ users' = UpdateLastLogin(reqs[r].user.id)
    /\ Put(r, [reqs[r] EXCEPT !.pc = "done",
                              !.resp = [Resp(200, "") EXCEPT !.token = reqs[r].token],
                              !.wrote = (users' # users)])
    /\ issued' = issued \cup {reqs[r].token}
    /\ UNCHANGED <<clients, now, connected, inbox, c2s>>

\* handleLogout: the client drops a token it holds.
ForgetToken(t) ==
    /\ Quiet
    /\ t \in issued
    /\ issued' = issued \ {t}
    /\ UNCHANGED <<clients, users, reqs, now, connected, inbox, c2s>>

\* ------------------------------------------- the authorization gate
AuthHeaders ==
    {NoAuth, [scheme |-> "Basic", token |-> NoToken]}
        \cup {[scheme |-> "Bearer", token |-> t] : t \in issued \cup {Forged}}

IssuedHeaders ==
    {[scheme |-> "Bearer", token |-> t] : t \in issued}

\* Mutation of AuthenticateToken: the token is verified before the header's
\* scheme is looked at.
AuthenticateTokenVerifyFirst(auth, t) ==
    IF ~JwtVerify(auth.token, t) THEN Resp(403, "Invalid token.")
    ELSE IF auth.scheme # "Bearer" THEN Resp(401, "Access denied. No token provided.")
    ELSE NoResp

\* authenticateToken: NoResp stands for the call of next().
AuthenticateToken(auth, t) ==
    IF auth.scheme # "Bearer" THEN Resp(401, "Access denied. No token provided.")
    ELSE IF ~JwtVerify(auth.token, t) THEN Resp(403, "Invalid token.")
    ELSE NoResp

\* Mutation of SelectStatus: the WHERE clause is lost and the first row is read.
SelectStatusFirstRow(id) ==
    IF id \in Ids THEN <<users[1]>> ELSE <<>>

\* SELECT status FROM users WHERE id = $1
SelectStatus(id) ==
    SelectSeq(users, LAMBDA u : u.id = id)

\* Mutation of CheckIfBlocked: the caller's status is not looked at.
CheckIfBlockedMissingOnly(rows) ==
    IF rows = <<>> THEN Resp(404, "User not found.") ELSE NoResp

\* checkIfBlocked, on the rows of its SELECT: NoResp stands for next().
CheckIfBlocked(rows) ==
    IF rows = <<>> THEN Resp(404, "User not found.")
    ELSE IF rows[1].status = "blocked"
         THEN Resp(403, "You are blocked. Action not allowed.")
    ELSE NoResp

\* --------------------------------------------------- GET /api/users
\* Mutation of ListStart: the route also refuses a caller whose status is blocked.
ListStartBlockedCheck(r, auth) ==
    /\ Quiet /\ Free(r)
    /\ LET q == [Idle EXCEPT !.kind = "list", !.auth = auth, !.at = now]
           reply == AuthenticateToken(auth, now)
       IN  IF reply # NoResp
           THEN Put(r, [q EXCEPT !.pc = "done", !.resp = reply])
           ELSE IF CheckIfBlocked(SelectStatus(auth.token.id)) # NoResp
           THEN Put(r, [q EXCEPT !.pc = "done",
                                 !.resp = CheckIfBlocked(SelectStatus(auth.token.id))])
           ELSE Put(r, [q EXCEPT !.pc = "q1",
                           !.user = [id |-> auth.token.id, email |-> auth.token.email]])
    /\ UNCHANGED <<clients, users, now, issued, connected, inbox, c2s>>

ListStart(r, auth) ==
    /\ Quiet /\ Free(r)
    /\ LET q == [Idle EXCEPT !.kind = "list", !.auth = auth, !.at = now]
           reply == AuthenticateToken(auth, now)
       IN  IF reply # NoResp
           THEN Put(r, [q EXCEPT !.pc = "done", !.resp = reply])
           ELSE Put(r, [q EXCEPT !.pc = "q1",
                           !.user = [id |-> auth.token.id, email |-> auth.token.email]])
    /\ UNCHANGED <<clients, users, now, issued, connected, inbox, c2s>>

Project(u) ==
    [id |-> u.id, name |-> u.name, email |-> u.email,
     last_login |-> u.last_login, status |-> u.status]

\* Mutation of Orderings: ORDER BY last_login without DESC.
OrderingsAscending ==
    {p \in [Ids -> Ids] :
        /\ \A i, j \in Ids : i # j => p[i] # p[j]
        /\ \A i, j \in Ids : i < j => users[p[i]].last_login <= users[p[j]].last_login}

\* The orders ORDER BY last_login DESC may return: rows of equal last_login
\* come in any order.
Orderings ==
    {p \in [Ids -> Ids] :
        /\ \A i, j \in Ids : i # j => p[i] # p[j]
        /\ \A i, j \in Ids : i < j => users[p[i]].last_login >= users[p[j]].last_login}

DbSelectAll(r) ==
    /\ Quiet
    /\ reqs[r].kind = "list" /\ reqs[r].pc = "q1"
    /\ \E p \in Orderings :
          Finish(r, [Resp(200, "") EXCEPT !.users = [i \in Ids |-> Project(users[p[i]])]])
    /\ UNCHANGED <<clients, users, now, issued, connected, inbox, c2s>>

\* ------------------------- PUT /api/users/block/:id, /api/users/unblock/:id
Targets == 1..(Len(users) + 1)

NewStatus(kind) == IF kind = "block" THEN "blocked" ELSE "active"

MutateStart(r, kind, auth, target) ==
    /\ Quiet /\ Free(r)
    /\ LET q == [Idle EXCEPT !.kind = kind, !.auth = auth, !.target = target]
           reply == AuthenticateToken(auth, now)
       IN  IF reply # NoResp
           THEN Put(r, [q EXCEPT !.pc = "done", !.resp = reply])
           ELSE Put(r, [q EXCEPT !.pc = "q1",
                           !.user = [id |-> auth.token.id, email |-> auth.token.email]])
    /\ UNCHANGED <<clients, users, now, issued, connected, inbox, c2s>>

DbSelectStatus(r) ==
    /\ Quiet
    /\ reqs[r].kind \in {"block", "unblock"} /\ reqs[r].pc = "q1"
    /\ LET reply == CheckIfBlocked(SelectStatus(reqs[r].user.id))
       IN  IF reply # NoResp
           THEN Finish(r, reply)
           ELSE Put(r, [reqs[r] EXCEPT !.pc = "q2"])
    /\ UNCHANGED <<clients, users, now, issued, connected, inbox, c2s>>

\* Mutation of UpdateStatus: a row already in the requested state is not matched.
UpdateStatusIfChanged(id, status) ==
    [rowCount |-> Len(SelectSeq(users, LAMBDA u : u.id = id /\ u.status # status)),
     table |-> [i \in Ids |-> IF users[i].id = id
                              THEN [users[i] EXCEPT !.status = status]
                              ELSE users[i]]]

\* Mutation of UpdateStatus: the statement flips the status instead of setting it.
UpdateStatusToggle(id, status) ==
    [rowCount |-> Len(SelectSeq(users, LAMBDA u : u.id = id)),
     table |-> [i \in Ids |-> IF users[i].id = id
                              THEN [users[i] EXCEPT !.status =
                                       IF @ = "active" THEN "blocked" ELSE "active"]
                              ELSE users[i]]]

\* UPDATE users SET status = ... WHERE id = $1 RETURNING *
UpdateStatus(id, status) ==
    [rowCount |-> Len(SelectSeq(users, LAMBDA u : u.id = id)),
     table |-> [i \in Ids |-> IF users[i].id = id
                              THEN [users[i] EXCEPT !.status = status]
                              ELSE users[i]]]

DbUpdateStatus(r) ==
    /\ Quiet
    /\ reqs[r].kind \in {"block", "unblock"} /\ reqs[r].pc = "q2"
    /\ LET upd == UpdateStatus(reqs[r].target, NewStatus(reqs[r].kind))
       IN  /\ users' = upd.table
           /\ IF upd.rowCount = 0
              THEN Finish(r, Resp(404, "User not found."))
              ELSE Put(r, [reqs[r] EXCEPT !.pc = "r2", !.wrote = (upd.table # users)])
    /\ UNCHANGED <<clients, now, issued, connected, inbox, c2s>>

\* Mutation of IoEmit: the signal goes to one socket instead of all.
IoEmitOne ==
    [s \in Sockets |-> IF s \in connected /\ s = "s1" THEN inbox[s] + 1 ELSE inbox[s]]

\* io.emit("usersUpdated"): one signal to every socket connected now.
IoEmit ==
    [s \in Sockets |-> IF s \in connected THEN inbox[s] + 1 ELSE inbox[s]]

EmitRespond(r) ==
    /\ Quiet
    /\ reqs[r].kind \in {"block", "unblock"} /\ reqs[r].pc = "r2"
    /\ inbox' = IoEmit
    /\ Put(r, [reqs[r] EXCEPT !.pc = "done", !.emits = reqs[r].emits + 1,
                              !.resp = Resp(200, "")])
    /\ UNCHANGED <<clients, users, now, issued, connected, c2s>>

\* --------------------------------------------------- DELETE /api/users/...
\* The client sends DELETE /api/users/:id (and /api/users/delete/:id); the
\* server registers no DELETE route, so the request runs no middleware of the
\* user-management routes and falls through to the framework's not-found reply.
DeleteRequest(r, auth, target) ==
    /\ Quiet /\ Free(r)
    /\ Put(r, [Idle EXCEPT !.kind = "delete", !.auth = auth, !.target = target,
                           !.pc = "done", !.resp = Resp(404, "Cannot DELETE")])
    /\ UNCHANGED <<clients, users, now, issued, connected, inbox, c2s>>

\* ------------------------------------------------------ the broadcast hub
Connect(s) ==
    /\ Quiet
    /\ s \notin connected
    /\ connected' = connected \cup {s}
    /\ UNCHANGED <<clients, users, reqs, now, issued, inbox, c2s>>

\* A signal not yet delivered is lost with the connection.
Disconnect(s) ==
    /\ s \in connected
    /\ connected' = connected \ {s}
    /\ inbox' = [inbox EXCEPT ![s] = 0]
    /\ UNCHANGED <<clients, users, reqs, now, issued, c2s>>

Deliver(s) ==
    /\ inbox[s] > 0
    /\ inbox' = [inbox EXCEPT ![s] = inbox[s] - 1]
    /\ UNCHANGED <<clients, users, reqs, now, issued, connected, c2s>>

\* handleAction ends with socket.emit("usersUpdated") towards the server.
ClientEmit(s) ==
    /\ Quiet
    /\ s \in connected
    /\ c2s' = c2s + 1
    /\ UNCHANGED <<clients, users, reqs, now, issued, connected, inbox>>

\* The server's connection handler listens for "disconnect" only: the
\* client's event reaches no listener.
ServerReceive ==
    /\ c2s > 0
    /\ c2s' = c2s - 1
    /\ UNCHANGED <<clients, users, reqs, now, issued, connected, inbox>>

\* ----------------------------------------------------- the UserTable page
\* The repository holds two UserTable components; a page runs one of them.
Tables == {"first", "second"}

\* The first UserTable mounts with stored token t: its effect runs before and
\* after isLoggedIn turns true and calls fetchUsers in both runs; the second
\* run registers the listener.
MountFirst(t) ==
    [table |-> "first", token |-> t, roster |-> <<>>,
     due |-> IF t = NoToken THEN 0 ELSE 2, slot |-> 0,
     selected |-> <<>>, batch |-> NoBatch]

\* The second UserTable mounts with stored token t: one effect calls
\* fetchUsers, the other registers the listener.
MountSecond(t) ==
    [table |-> "second", token |-> t, roster |-> <<>>,
     due |-> IF t = NoToken THEN 0 ELSE 1, slot |-> 0,
     selected |-> <<>>, batch |-> NoBatch]

\* The page loads: its socket connects and the component mounts with the token
\* found in localStorage (NoToken: none) and an empty roster.
Mount(s, table, t) ==
    /\ Quiet
    /\ s \notin connected
    /\ connected' = connected \cup {s}
    /\ clients' = [clients EXCEPT ![s] =
          IF table = "first" THEN MountFirst(t) ELSE MountSecond(t)]
    /\ UNCHANGED <<users, reqs, now, issued, inbox, c2s>>

\* The page is closed: the socket disconnects, a signal not yet delivered is lost.
Unload(s) ==
    /\ s \in connected
    /\ connected' = connected \ {s}
    /\ inbox' = [inbox EXCEPT ![s] = 0]
    /\ clients' = [clients EXCEPT ![s] = NoClient]
    /\ UNCHANGED <<users, reqs, now, issued, c2s>>

\* handleLogout: the token is dropped, which unregisters the listener;
\* requests of a page that logged out are not followed further.
HandleLogout(c) == [c EXCEPT !.token = NoToken, !.due = 0]

\* The first UserTable's listener, registered while the page is logged in with
\* a stored token: it stores the event's argument as the roster.
FirstOnUsersUpdated(c, updatedUsers) ==
    IF c.token = NoToken THEN c ELSE [c EXCEPT !.roster = updatedUsers]

\* The second UserTable's listener, registered while the page holds a token:
\* it calls fetchUsers(token).
HandleUserUpdate(c) ==
    IF c.token = NoToken THEN c ELSE [c EXCEPT !.due = @ + 1]

\* A signal reaches the page behind socket s.
OnUsersUpdated(s) ==
    /\ inbox[s] > 0
    /\ inbox' = [inbox EXCEPT ![s] = inbox[s] - 1]
    /\ clients' = [clients EXCEPT ![s] =
          IF clients[s].table = "first"
          THEN FirstOnUsersUpdated(clients[s], Undefined)
          ELSE HandleUserUpdate(clients[s])]
    /\ UNCHANGED <<users, reqs, now, issued, connected, c2s>>

\* fetchUsers: the page's GET /api/users with its token arrives at the server
\* (the arrival is that of ListStart) and the page awaits the response.
FetchUsers(s, r) ==
    /\ Quiet /\ Free(r)
    /\ clients[s].due > 0 /\ clients[s].slot = 0
    /\ LET auth == [scheme |-> "Bearer", token |-> clients[s].token]
           q == [Idle EXCEPT !.kind = "list", !.auth = auth, !.at = now]
           reply == AuthenticateToken(auth, now)
       IN  IF reply # NoResp
           THEN Put(r, [q EXCEPT !.pc = "done", !.resp = reply])
           ELSE Put(r, [q EXCEPT !.pc = "q1",
                           !.user = [id |-> auth.token.id, email |-> auth.token.email]])
    /\ clients' = [clients EXCEPT ![s].due = @ - 1, ![s].slot = r]
    /\ UNCHANGED <<users, now, issued, connected, inbox, c2s>>

\* What the first UserTable's fetchUsers does with the response: 200 replaces
\* the roster; 403 removes the stored token and logs out; any other status
\* throws into the catch, which does the same.
FetchUsersThenFirst(c, resp) ==
    IF resp.status = 200 THEN [c EXCEPT !.roster = resp.users]
    ELSE HandleLogout(c)

\* What the second UserTable's fetchUsers does with the response: 200 replaces
\* the roster; 403 logs out; any other status is logged only.
FetchUsersThen(c, resp) ==
    IF resp.status = 200 THEN [c EXCEPT !.roster = resp.users]
    ELSE IF resp.status = 403 THEN HandleLogout(c)
    ELSE c

\* The response of the page's GET reaches it and leaves the server.
FetchUsersReply(s) ==
    /\ clients[s].slot # 0
    /\ reqs[clients[s].slot].pc = "done"
    /\ LET resp == reqs[clients[s].slot].resp
           c == IF clients[s].table = "first"
                THEN FetchUsersThenFirst(clients[s], resp)
                ELSE FetchUsersThen(clients[s], resp)
       IN  clients' = [clients EXCEPT ![s] = [c EXCEPT !.slot = 0]]
    /\ Put(clients[s].slot, Idle)
    /\ UNCHANGED <<users, now, issued, connected, inbox, c2s>>

NoFetchDue == \A s \in Sockets : clients[s].due = 0

Awaited(r) ==
    \E s \in Sockets : clients[s].slot = r \/ clients[s].batch.slot = r

\* ------------------------------------------------- the page's batch action
Actions == {"block", "unblock", "delete"}

\* toggleSelection on a row the page shows: the id leaves the selection if it
\* is in it and is appended otherwise.  The table is rendered while the page is
\* logged in.
ToggleSelection(s, id) ==
    /\ clients[s].token # NoToken
    /\ clients[s].roster # Undefined
    /\ \E i \in 1..Len(clients[s].roster) : clients[s].roster[i].id = id
    /\ clients' = [clients EXCEPT ![s].selected =
          IF \E i \in 1..Len(@) : @[i] = id
          THEN SelectSeq(@, LAMBDA x : x # id)
          ELSE Append(@, id)]
    /\ UNCHANGED <<users, reqs, now, issued, connected, inbox, c2s>>

\* handleAction(action) is called by a click on one of the three buttons: with
\* an empty selection or without a token it returns at once; otherwise the loop
\* starts at the first selected id.  A page runs one call at a time.
HandleAction(s, action) ==
    /\ clients[s].batch = NoBatch
    /\ clients[s].selected # <<>> /\ clients[s].token # NoToken
    /\ clients' = [clients EXCEPT ![s].batch =
          [action |-> action, ids |-> clients[s].selected,
           token |-> clients[s].token, pos |-> 1, slot |-> 0]]
    /\ UNCHANGED <<users, reqs, now, issued, connected, inbox, c2s>>

\* The loop's fetch for the id at pos arrives at the server: a PUT to
\* /api/users/block/:id or /api/users/unblock/:id (the arrival is that of
\* MutateStart) or a DELETE (that of DeleteRequest), with the call's token.
HandleActionFetch(s, r) ==
    /\ Quiet /\ Free(r)
    /\ clients[s].batch # NoBatch /\ clients[s].batch.slot = 0
    /\ LET b == clients[s].batch
           auth == [scheme |-> "Bearer", token |-> b.token]
           q == [Idle EXCEPT !.kind = b.action, !.auth = auth, !.target = b.ids[b.pos]]
           reply == AuthenticateToken(auth, now)
       IN  IF b.action = "delete"
           THEN Put(r, [q EXCEPT !.pc = "done", !.resp = Resp(404, "Cannot DELETE")])
           ELSE IF reply # NoResp
           THEN Put(r, [q EXCEPT !.pc = "done", !.resp = reply])
           ELSE Put(r, [q EXCEPT !.pc = "q1",
                           !.user = [id |-> auth.token.id, email |-> auth.token.email]])
    /\ clients' = [clients EXCEPT ![s].batch.slot = r]
    /\ UNCHANGED <<users, now, issued, connected, inbox, c2s>>

\* response.ok
Ok(resp) == resp.status \in 200..299

\* await response.json(): the routes reply with JSON bodies; the framework's
\* not-found reply to a DELETE is an HTML page, on which the call throws.
BodyIsJson(q) == q.kind # "delete"

\* What the first UserTable's loop does with the response of request q: a 403
\* whose error is one of the two texts it knows logs out and returns; any other
\* response, OK or not, lets the loop go on; a body that is not JSON throws
\* into the catch.
HandleActionThenFirst(q) ==
    IF ~BodyIsJson(q) THEN "throw"
    ELSE IF q.resp.status = 403
            /\ q.resp.error \in {"You are blocked. Action not allowed.", "Invalid token"}
         THEN "logout"
    ELSE "next"

\* What the second UserTable's loop does with the response of request q: a 403
\* calls handleLogout and returns; any other response, OK or not, lets the loop
\* go on; a body that is not JSON throws into the catch.
HandleActionThen(q) ==
    IF ~BodyIsJson(q) THEN "throw"
    ELSE IF ~Ok(q.resp) /\ q.resp.status = 403 THEN "logout"
    ELSE "next"

\* The response of the loop's fetch reaches the page and leaves the server.
\* On "logout" and on "throw" the call ends and leaves the selection as it is;
\* on "next" the loop moves to the next id, and after the last id the selection
\* is cleared (and the second UserTable emits 'usersUpdated' to the server).
HandleActionReply(s) ==
    /\ clients[s].batch.slot # 0
    /\ reqs[clients[s].batch.slot].pc = "done"
    /\ LET c == clients[s]
           b == c.batch
           then == IF c.table = "first"
                   THEN HandleActionThenFirst(reqs[b.slot])
                   ELSE HandleActionThen(reqs[b.slot])
           last == b.pos = Len(b.ids)
       IN  /\ clients' = [clients EXCEPT ![s] =
                 CASE then = "throw" -> [c EXCEPT !.batch = NoBatch]
                   [] then = "logout" -> [HandleLogout(c) EXCEPT !.batch = NoBatch]
                   [] then = "next" /\ ~last ->
                         [c EXCEPT !.batch.pos = @ + 1, !.batch.slot = 0]
                   [] OTHER -> [c EXCEPT !.selected = <<>>, !.batch = NoBatch]]
           /\ c2s' = IF then = "next" /\ last /\ c.table = "second"
                     THEN c2s + 1 ELSE c2s
    /\ Put(clients[s].batch.slot, Idle)
    /\ UNCHANGED <<users, now, issued, connected, inbox>>

\* --------------------------------------------------------- store failures
FailReply(q) ==
    CASE q.kind = "register" -> Resp(500, "Could not register user.")
      [] q.kind = "login" -> Resp(500, "Login failed.")
      [] q.kind = "list" -> Resp(500, "Could not fetch users.")
      [] q.kind \in {"block", "unblock"} /\ q.pc = "q1" -> Resp(500, "Server error.")
      [] q.kind = "block" -> Resp(500, "Could not block user.")
      [] OTHER -> Resp(500, "Could not unblock user.")

\* pool.query rejects: the statement has no effect and the handler's catch replies.
DbFail(r) ==
    /\ Quiet
    /\ reqs[r].pc \in {"q1", "q2"}
    /\ Finish(r, FailReply(reqs[r]))
    /\ UNCHANGED <<clients, users, now, issued, connected, inbox, c2s>>

\* ------------------------------------------------------------- the clock
Tick ==
    /\ Quiet
    /\ now < MaxTicks * TickStep
    /\ now' = now + TickStep
    /\ UNCHANGED <<clients, users, reqs, issued, connected, inbox, c2s>>

\* The response has left the server: the slot is free again.
Retire(r) ==
    /\ reqs[r].pc = "done"
    /\ Put(r, Idle)
    /\ UNCHANGED <<clients, users, now, issued, connected, inbox, c2s>>

\* ------------------------------------------------------- specifications
\* Concurrent requests that carry all their fields and a token a login issued,
\* within one tick of the clock: the races between handlers.
Next ==
    \/ \E r \in Reqs, name \in Names, email \in Emails,
          password \in {"pw1"} : RegisterStart(r, name, email, password)
    \/ \E r \in Reqs : DbInsertUser(r)
    \/ \E r \in Reqs, email \in Emails,
          password \in Passwords : LoginStart(r, email, password)
    \/ \E r \in Reqs : DbSelectByEmail(r)
    \/ \E r \in Reqs : LoginSign(r)
    \/ \E r \in Reqs : DbUpdateLastLogin(r)
    \/ \E r \in Reqs, auth \in IssuedHeaders : ListStart(r, auth)
    \/ \E r \in Reqs : DbSelectAll(r)
    \/ \E r \in Reqs, kind \in {"block", "unblock"}, auth \in IssuedHeaders,
          target \in Targets : MutateStart(r, kind, auth, target)
    \/ \E r \in Reqs : DbSelectStatus(r)
    \/ \E r \in Reqs : DbUpdateStatus(r)
    \/ \E r \in Reqs : EmitRespond(r)
    \/ \E t \in issued : ForgetToken(t)
    \/ \E r \in Reqs : Retire(r)

Spec == Init /\ [][Next]_vars

\* One request at a time, of every shape: with or without its body fields,
\* with any Authorization header.
Sequential ==
    \/ \E r \in {1}, name \in Names \cup {Missing}, email \in Emails \cup {Missing},
          password \in {"pw1"} \cup {Missing} : RegisterStart(r, name, email, password)
    \/ \E r \in {1} : DbInsertUser(r)
    \/ \E r \in {1}, email \in Emails \cup {Missing},
          password \in Passwords \cup {Missing} : LoginStart(r, email, password)
    \/ \E r \in {1} : DbSelectByEmail(r)
    \/ \E r \in {1} : LoginSign(r)
    \/ \E r \in {1} : DbUpdateLastLogin(r)
    \/ \E r \in {1}, auth \in AuthHeaders : ListStart(r, auth)
    \/ \E r \in {1} : DbSelectAll(r)
    \/ \E r \in {1}, kind \in {"block", "unblock"}, auth \in AuthHeaders,
          target \in Targets : MutateStart(r, kind, auth, target)
    \/ \E r \in {1} : DbSelectStatus(r)
    \/ \E r \in {1} : DbUpdateStatus(r)
    \/ \E r \in {1} : EmitRespond(r)
    \/ \E t \in issued : ForgetToken(t)
    \/ \E r \in {1} : Retire(r)

\* Concurrent registrations.
NextRegister ==
    \/ \E r \in Reqs, name \in Names \cup {Missing}, email \in Emails \cup {Missing},
          password \in {"pw1"} \cup {Missing} : RegisterStart(r, name, email, password)
    \/ \E r \in Reqs : DbInsertUser(r)
    \/ \E r \in Reqs : Retire(r)

SpecRegister == Init /\ [][NextRegister]_vars

\* The server after both emails registered (at time 0, with password "pw1"):
\* a state Spec reaches from Init.
Registered ==
    [i \in 1..2 |->
        [id |-> i, name |-> "Alice", email |-> IF i = 1 THEN "a@x.com" ELSE "b@x.com",
         password |-> BcryptHash("pw1"), status |-> "active", last_login |-> 0]]

InitRace ==
    /\ users = Registered
    /\ reqs = [r \in Reqs |-> Idle]
    /\ now = 0
    /\ issued = {}
    /\ connected = {}
    /\ inbox = [s \in Sockets |-> 0]
    /\ c2s = 0
    /\ clients = [s \in Sockets |-> NoClient]

\* Concurrent logins, blocks and unblocks among the registered users.
NextRace ==
    \/ \E r \in Reqs, email \in Emails, password \in Passwords :
          LoginStart(r, email, password)
    \/ \E r \in Reqs : DbSelectByEmail(r)
    \/ \E r \in Reqs : LoginSign(r)
    \/ \E r \in Reqs : DbUpdateLastLogin(r)
    \/ \E r \in Reqs, kind \in {"block", "unblock"}, auth \in IssuedHeaders,
          target \in Ids : MutateStart(r, kind, auth, target)
    \/ \E r \in Reqs : DbSelectStatus(r)
    \/ \E r \in Reqs : DbUpdateStatus(r)
    \/ \E r \in Reqs : EmitRespond(r)
    \/ \E t \in issued : ForgetToken(t)
    \/ \E r \in Reqs : Retire(r)

SpecRace == InitRace /\ [][NextRace]_vars

Hub ==
    \/ \E s \in Sockets : Connect(s)
    \/ \E s \in Sockets : Disconnect(s)
    \/ \E s \in Sockets : Deliver(s)
    \/ \E s \in Sockets : ClientEmit(s)
    \/ ServerReceive

\* One request at a time, DELETE included, while the clock advances.
NextSeq ==
    \/ Sequential
    \/ \E auth \in AuthHeaders, target \in Targets : DeleteRequest(1, auth, target)
    \/ Tick

SpecSeq == Init /\ [][NextSeq]_vars

\* One request at a time and the broadcast hub, while statements may fail.
NextHub == Sequential \/ Hub \/ DbFail(1)

SpecHub == Init /\ [][NextHub]_vars

\* One request at a time, while the clock advances and statements may fail.
NextFault == Sequential \/ Tick \/ DbFail(1)

SpecFault == Init /\ [][NextFault]_vars

\* The token login signs for registered user i at time 0.
TokenOf(i) ==
    JwtSign([id |-> Registered[i].id, email |-> Registered[i].email], 0)

\* The server after both users registered and logged in and the second blocked
\* the first: user 1 is blocked and holds a token issued before the block.
InitRevive ==
    /\ users = [Registered EXCEPT ![1].status = "blocked"]
    /\ reqs = [r \in Reqs |-> Idle]
    /\ now = 0
    /\ issued = {TokenOf(1), TokenOf(2)}
    /\ connected = {}
    /\ inbox = [s \in Sockets |-> 0]
    /\ c2s = 0
    /\ clients = [s \in Sockets |-> NoClient]

\* Concurrent blocks and unblocks with the tokens already issued, and no
\* login, while the clock advances.
NextRevive ==
    \/ \E r \in Reqs, kind \in {"block", "unblock"}, auth \in IssuedHeaders,
          target \in Ids : MutateStart(r, kind, auth, target)
    \/ \E r \in Reqs : DbSelectStatus(r)
    \/ \E r \in Reqs : DbUpdateStatus(r)
    \/ \E r \in Reqs : EmitRespond(r)
    \/ \E r \in Reqs : Retire(r)
    \/ Tick

SpecRevive == InitRevive /\ [][NextRevive]_vars

\* The server after both users registered and logged in, no page open yet.
InitClient ==
    /\ users = Registered
    /\ reqs = [r \in Reqs |-> Idle]
    /\ now = 0
    /\ issued = {TokenOf(1), TokenOf(2)}
    /\ connected = {}
    /\ inbox = [s \in Sockets |-> 0]
    /\ c2s = 0
    /\ clients = [s \in Sockets |-> NoClient]

\* Pages open and close and re-fetch on the signal, while blocks and unblocks
\* with the issued tokens are served one at a time and the clock advances.  A
\* request the pages have sent reaches the server before the next block or
\* unblock does.
NextClient ==
    \/ \E s \in Sockets, table \in Tables, t \in issued \cup {NoToken} : Mount(s, table, t)
    \/ \E s \in Sockets : Unload(s)
    \/ \E s \in Sockets : OnUsersUpdated(s)
    \/ \E s \in Sockets, r \in {1} : FetchUsers(s, r)
    \/ \E r \in {1} : DbSelectAll(r)
    \/ \E s \in Sockets : FetchUsersReply(s)
    \/ \E r \in {1}, kind \in {"block", "unblock"}, auth \in IssuedHeaders,
          target \in Ids : NoFetchDue /\ MutateStart(r, kind, auth, target)
    \/ \E r \in {1} : DbSelectStatus(r)
    \/ \E r \in {1} : DbUpdateStatus(r)
    \/ \E r \in {1} : EmitRespond(r)
    \/ \E r \in {1} : ~Awaited(r) /\ Retire(r)
    \/ Tick

SpecClient == InitClient /\ [][NextClient]_vars

\* Fair delivery of the signals and fair scheduling of the requests: a signal
\* emitted to a connected socket is delivered, a request sent reaches the
\* server, every statement of a request in flight executes and every response
\* is received.  The server admits a request whatever other requests it is
\* serving, so a request that can arrive again and again does arrive (strong
\* fairness).  Pages opening and closing, new blocks and unblocks and the
\* clock are under no obligation.
ClientFairness ==
    /\ \A s \in Sockets : /\ WF_vars(OnUsersUpdated(s))
                          /\ SF_vars(FetchUsers(s, 1))
                          /\ WF_vars(FetchUsersReply(s))
    /\ WF_vars(DbSelectAll(1))
    /\ WF_vars(DbSelectStatus(1))
    /\ WF_vars(DbUpdateStatus(1))
    /\ WF_vars(EmitRespond(1))
    /\ WF_vars(~Awaited(1) /\ Retire(1))

SpecClientLive == InitClient /\ [][NextClient]_vars /\ ClientFairness

\* One page at a time is open: it fetches its roster, selects rows and runs
\* batch actions, served one request at a time, while the clock advances and
\* statements may fail.  A GET the page has sent reaches the server before the
\* loop's next request does.
Pages == {"s1"}

NextAction ==
    \/ \E s \in Pages, table \in Tables, t \in issued \cup {NoToken} : Mount(s, table, t)
    \/ \E s \in Pages : Unload(s)
    \/ \E s \in Pages : OnUsersUpdated(s)
    \/ \E s \in Pages, r \in {1} : FetchUsers(s, r)
    \/ \E r \in {1} : DbSelectAll(r)
    \/ \E s \in Pages : FetchUsersReply(s)
    \/ \E s \in Pages, id \in Ids : ToggleSelection(s, id)
    \/ \E s \in Pages, action \in Actions : HandleAction(s, action)
    \/ \E s \in Pages, r \in {1} : NoFetchDue /\ HandleActionFetch(s, r)
    \/ \E r \in {1} : DbSelectStatus(r)
    \/ \E r \in {1} : DbUpdateStatus(r)
    \/ \E r \in {1} : EmitRespond(r)
    \/ \E s \in Pages : HandleActionReply(s)
    \/ ServerReceive
    \/ \E r \in {1} : DbFail(r)
    \/ \E r \in {1} : ~Awaited(r) /\ Retire(r)
    \/ Tick

SpecAction == InitClient /\ [][NextAction]_vars

\* ------------------------------------------------------------ properties
Done(r) == reqs[r].pc = "done"

Mutating(r) == reqs[r].kind \in {"block", "unblock"}

BlockedReply == Resp(403, "You are blocked. Action not allowed.")

\* C1: a login never answers 200 with a token for a user whose stored status
\* is 'blocked' at the moment the response is sent.
C1_NoTokenForBlocked ==
    \A r \in Reqs :
        (Done(r) /\ reqs[r].kind = "login" /\ reqs[r].resp.status = 200)
            => StatusOfId(reqs[r].resp.token.id) # "blocked"

\* C2: no block/unblock UPDATE commits on behalf of a caller whose stored
\* status is 'blocked' at the time the UPDATE commits.
C2_NoUpdateByBlocked ==
    [][\A r \in Reqs :
          (Mutating(r) /\ reqs[r].pc = "q2" /\ reqs'[r].pc = "r2")
              => StatusOfId(reqs[r].user.id) # "blocked"]_vars

\* C3: a block/unblock request that authenticateToken accepted and whose
\* caller is blocked when checkIfBlocked reads the status (as it is for every
\* request that arrives after the caller's block completed, while the caller
\* stays blocked) is answered 403 "You are blocked", changes no row and emits
\* no broadcast.
C3_BlockedCallerRejected ==
    [][\A r \in Reqs :
          (/\ Mutating(r) /\ reqs[r].pc = "q1" /\ reqs'[r].pc # "q1"
           /\ reqs[r].user # NoUser
           /\ StatusOfId(reqs[r].user.id) = "blocked")
              => /\ reqs'[r].pc = "done"
                 /\ reqs'[r].resp = BlockedReply
                 /\ ~reqs'[r].wrote /\ reqs'[r].emits = 0
                 /\ users' = users /\ inbox' = inbox]_vars

C3_Witness ==
    \E r \in Reqs :
        /\ Done(r) /\ reqs[r].kind = "unblock"
        /\ JwtVerify(reqs[r].auth.token, now)
        /\ reqs[r].target = reqs[r].user.id
        /\ StatusOfId(reqs[r].user.id) = "blocked"
        /\ reqs[r].resp = BlockedReply

\* C4: a login whose email belongs to a user who is blocked when the handler
\* looks the user up (as it is for every login that arrives after the block
\* completed, while the user stays blocked) is answered 403 'User is blocked.'
\* whatever the password, never 401, returns no token and does not update
\* last_login.
C4_BlockedLoginRejected ==
    [][\A r \in Reqs :
          (/\ reqs[r].kind = "login" /\ reqs[r].pc = "q1" /\ reqs'[r].pc # "q1"
           /\ StatusOfEmail(reqs[r].email) = "blocked")
              => /\ reqs'[r].pc = "done"
                 /\ reqs'[r].resp = Resp(403, "User is blocked.")
                 /\ reqs'[r].resp.token = NoToken
                 /\ ~reqs'[r].wrote
                 /\ users' = users /\ issued' = issued]_vars

C4_Witness ==
    \E r \in Reqs :
        /\ Done(r) /\ reqs[r].kind = "login"
        /\ StatusOfEmail(reqs[r].email) = "blocked"
        /\ ~BcryptCompare(reqs[r].password, RowsByEmail(reqs[r].email)[1].password)
        /\ reqs[r].resp.status = 403

\* C5: a DELETE of an id that matches no row answers not-found and changes
\* nothing; a DELETE of an existing id by a caller with a valid token who is
\* not blocked answers 200, removes that row and emits the broadcast.
C5_DeleteRemoves ==
    \A r \in Reqs :
        (Done(r) /\ reqs[r].kind = "delete")
            => IF reqs[r].target \notin Ids
               THEN reqs[r].resp.status = 404 /\ ~reqs[r].wrote
               ELSE (/\ reqs[r].auth.scheme = "Bearer"
                     /\ JwtVerify(reqs[r].auth.token, now)
                     /\ StatusOfId(reqs[r].auth.token.id) = "active")
                        => /\ reqs[r].resp.status = 200
                           /\ reqs[r].wrote
                           /\ reqs[r].emits = 1

\* C6: the table holds at most one row per email; a registration whose INSERT
\* finds no row with its email answers 201 and adds exactly one active row with
\* that email, and one that finds such a row answers 409 and adds nothing.
C6_OneRecordPerEmail ==
    [][/\ \A e \in Emails : Len(RowsByEmail(e))' <= 1
       /\ \A r \in Reqs :
            (reqs[r].kind = "register" /\ reqs[r].pc = "q1" /\ reqs'[r].pc = "done")
                => IF RowsByEmail(reqs[r].email) = <<>>
                   THEN /\ reqs'[r].resp.status = 201
                        /\ Len(users') = Len(users) + 1
                        /\ SubSeq(users', 1, Len(users)) = users
                        /\ users'[Len(users')].email = reqs[r].email
                        /\ users'[Len(users')].status = "active"
                   ELSE /\ reqs'[r].resp.status = 409
                        /\ users' = users]_vars

C6_Witness ==
    \E r \in Reqs :
        /\ Done(r) /\ reqs[r].kind = "register" /\ reqs[r].resp.status = 409
        /\ Len(RowsByEmail(reqs[r].email)) = 1
        /\ Len(users) = 2

\* C7: a login with the email and password of a registered user who is active
\* when the handler looks the user up is not rejected, and every login answered
\* after passing the lookup gets 200 with a token whose id and email are those
\* of the row the registration created.
C7_LoginAfterRegister ==
    /\ [][\A r \in Reqs :
            (/\ reqs[r].kind = "login" /\ reqs[r].pc = "q1" /\ reqs'[r].pc # "q1"
             /\ StatusOfEmail(reqs[r].email) = "active"
             /\ RowsByEmail(reqs[r].email)[1].password = BcryptHash(reqs[r].password))
                => reqs'[r].pc = "r1"]_vars
    /\ [](\A r \in Reqs :
            (Done(r) /\ reqs[r].kind = "login" /\ reqs[r].user # NoUser)
                => /\ reqs[r].resp.status = 200
                   /\ reqs[r].resp.token.id = RowsByEmail(reqs[r].email)[1].id
                   /\ reqs[r].resp.token.email = reqs[r].email
                   /\ reqs[r].resp.token.key = JWT_SECRET
                   /\ reqs[r].resp.token \in issued)

C7_Witness ==
    \E r \in Reqs :
        /\ Done(r) /\ reqs[r].kind = "login"
        /\ reqs[r].resp.status = 200
        /\ reqs[r].resp.token.id = 2
        /\ reqs[r].email = "a@x.com"

\* C8: a list request carrying a token that login signed is answered 200 with
\* the list when it arrives before the token's expiry, and 403 'Invalid token.'
\* without a list when it arrives at or after the expiry.
C8_TokenWindow ==
    \A r \in Reqs :
        (/\ Done(r) /\ reqs[r].kind = "list" /\ reqs[r].auth.scheme = "Bearer"
         /\ reqs[r].auth.token.key = JWT_SECRET)
            => IF reqs[r].at < reqs[r].auth.token.iat + ExpiresIn
               THEN /\ reqs[r].resp.status = 200
                    /\ Len(reqs[r].resp.users) = Len(users)
               ELSE reqs[r].resp = Resp(403, "Invalid token.")

C8_Witness ==
    \E r \in Reqs :
        /\ Done(r) /\ reqs[r].kind = "list"
        /\ reqs[r].auth.token.key = JWT_SECRET
        /\ reqs[r].at = reqs[r].auth.token.iat + ExpiresIn
        /\ reqs[r].resp.status = 403

\* C9: a step emits 'usersUpdated' exactly when it sends the 200 response of a
\* block or unblock whose UPDATE matched a row, and then every socket connected
\* at that moment gets exactly one signal; no other step (register, login,
\* list, a 401/403/404/500 reply, an event received from a client) emits.
Responds(r) == reqs[r].pc # "done" /\ reqs'[r].pc = "done"

C10_RejectedChangesNothing ==
    \A r \in Reqs :
        (Done(r) /\ reqs[r].resp.status \notin {200, 201}) => ~reqs[r].wrote

C10_Witness ==
    \E r \in Reqs :
        /\ Done(r) /\ reqs[r].kind = "login" /\ reqs[r].resp.status = 500
        /\ reqs[r].token # NoToken
        /\ users[reqs[r].user.id].last_login < now

\* C11: block and unblock are idempotent on the store.  An UPDATE whose target
\* exists leaves the table equal to the old one with the target's status set to
\* the requested value, so when the target is already in that state the table
\* is unchanged; the row is still matched, and the request is answered 200 with
\* no error, as the first application was.
C11_Idempotent ==
    /\ [][\A r \in Reqs :
            (Mutating(r) /\ reqs[r].pc = "q2" /\ reqs'[r].pc # "q2"
             /\ reqs[r].target \in Ids)
                => LET t == reqs[r].target
                       s == IF reqs[r].kind = "block" THEN "blocked" ELSE "active"
                   IN  /\ users' = [users EXCEPT ![t].status = s]
                       /\ (users[t].status = s => users' = users)
                       /\ reqs'[r].pc = "r2"]_vars
    /\ [](\A r \in Reqs :
            (Done(r) /\ Mutating(r) /\ reqs[r].emits = 1)
                => reqs[r].resp = Resp(200, ""))

C11_Witness ==
    \E r \in Reqs :
        /\ Done(r) /\ reqs[r].kind = "block" /\ reqs[r].resp = Resp(200, "")
        /\ ~reqs[r].wrote
        /\ StatusOfId(reqs[r].target) = "blocked"
        /\ reqs[r].target # reqs[r].user.id

\* C12: the list endpoint does not look at the caller's status: a list request
\* whose token is valid when it arrives and whose caller is blocked in the
\* store is answered 200 with every row of the table.
C12_BlockedCallerLists ==
    \A r \in Reqs :
        (/\ Done(r) /\ reqs[r].kind = "list" /\ reqs[r].auth.scheme = "Bearer"
         /\ reqs[r].auth.token.key = JWT_SECRET
         /\ reqs[r].at < reqs[r].auth.token.exp
         /\ StatusOfId(reqs[r].auth.token.id) = "blocked")
            => /\ reqs[r].resp.status = 200
               /\ Len(reqs[r].resp.users) = Len(users)
               /\ {reqs[r].resp.users[i] : i \in Ids} = {Project(users[i]) : i \in Ids}

C12_Witness ==
    \E r \in Reqs :
        /\ Done(r) /\ reqs[r].kind = "list" /\ reqs[r].resp.status = 200
        /\ StatusOfId(reqs[r].auth.token.id) = "blocked"
        /\ Len(reqs[r].resp.users) = 2
        /\ \E i \in 1..2 : /\ reqs[r].resp.users[i].id = reqs[r].auth.token.id
                            /\ reqs[r].resp.users[i].status = "blocked"

\* C13: a user's status changes only in the UPDATE step of a block or unblock
\* request, to the value that request asks for; such a request reached its
\* UPDATE through both gate checks: it was admitted with a Bearer token that
\* verified at that time, and went on from the status read only when the row
\* of the token's user was read as not blocked.  A new row is created by a
\* register request only, with status 'active'; no step of a login or list
\* request changes a status, and no row disappears.
C13_StatusChangesByGatedAction ==
    [][/\ Len(users') >= Len(users)
       /\ \A i \in Ids :
            users'[i].status # users[i].status
                => \E r \in Reqs :
                      /\ Mutating(r) /\ reqs[r].pc = "q2" /\ reqs'[r].pc = "r2"
                      /\ reqs[r].target = i
                      /\ users'[i].status =
                             IF reqs[r].kind = "block" THEN "blocked" ELSE "active"
       /\ \A r \in Reqs :
            /\ (Mutating(r)' /\ reqs'[r].pc = "q1" /\ reqs[r].pc # "q1")
                  => /\ reqs[r].kind = "idle"
                     /\ reqs'[r].auth.scheme = "Bearer"
                     /\ reqs'[r].auth.token.key = JWT_SECRET
                     /\ now < reqs'[r].auth.token.exp
                     /\ reqs'[r].user.id = reqs'[r].auth.token.id
            /\ (Mutating(r)' /\ reqs'[r].pc = "q2" /\ reqs[r].pc # "q2")
                  => /\ Mutating(r) /\ reqs[r].pc = "q1"
                     /\ StatusOfId(reqs[r].user.id) = "active"
            /\ (reqs[r].kind \in {"login", "list", "delete"} /\ reqs'[r] # reqs[r])
                  => \A i \in Ids : users'[i].status = users[i].status
       /\ Len(users') > Len(users)
            => /\ Len(users') = Len(users) + 1
               /\ users'[Len(users')].status = "active"
               /\ \E r \in Reqs : reqs[r].kind = "register" /\ reqs[r].pc = "q1"
                                    /\ reqs'[r].pc = "done"]_vars

C13_Witness ==
    \E r \in Reqs :
        /\ Done(r) /\ reqs[r].kind = "unblock" /\ reqs[r].resp.status = 200
        /\ reqs[r].wrote
        /\ reqs[r].target # reqs[r].user.id
        /\ StatusOfId(reqs[r].target) = "active"

\* C14: the gate of a block/unblock request checks in a fixed order.  On
\* arrival: a header that is missing or not 'Bearer ' is answered 401, whatever
\* else holds; otherwise a token that does not verify (forged or expired) is
\* answered 403 'Invalid token.'; otherwise the request goes on to read the
\* caller's status.  At that read: no row for the caller is answered 404, a
\* blocked caller 403, and only otherwise does the request go on to its
\* UPDATE.  Neither gate step changes the table, and a block/unblock request
\* changes it only in the UPDATE step.  No user row is ever removed, so no
\* step reads the status of a caller without a row; that case is checked on
\* the gate applied to an id outside the table.
C14_GateOrder ==
    /\ [][\A r \in Reqs :
            /\ (reqs[r].kind = "idle" /\ Mutating(r)')
                  => /\ users' = users
                     /\ IF reqs'[r].auth.scheme # "Bearer"
                        THEN /\ reqs'[r].pc = "done"
                             /\ reqs'[r].resp = Resp(401, "Access denied. No token provided.")
                        ELSE IF ~(/\ reqs'[r].auth.token.key = JWT_SECRET
                                  /\ now < reqs'[r].auth.token.exp)
                        THEN /\ reqs'[r].pc = "done"
                             /\ reqs'[r].resp = Resp(403, "Invalid token.")
                        ELSE reqs'[r].pc = "q1"
            /\ (Mutating(r) /\ reqs[r].pc = "q1" /\ reqs'[r].pc # "q1")
                  => /\ users' = users
                     /\ IF StatusOfId(reqs[r].user.id) = "none"
                        THEN /\ reqs'[r].pc = "done"
                             /\ reqs'[r].resp = Resp(404, "User not found.")
                        ELSE IF StatusOfId(reqs[r].user.id) = "blocked"
                        THEN /\ reqs'[r].pc = "done"
                             /\ reqs'[r].resp = BlockedReply
                        ELSE reqs'[r].pc = "q2"
            /\ (Mutating(r)' /\ reqs'[r] # reqs[r] /\ users' # users)
                  => reqs[r].pc = "q2"]_vars
    /\ [](CheckIfBlocked(SelectStatus(Len(users) + 1)) = Resp(404, "User not found."))

C14_Witness ==
    \E r \in Reqs :
        /\ Done(r) /\ Mutating(r)
        /\ reqs[r].resp = Resp(403, "Invalid token.")
        /\ reqs[r].auth.scheme = "Bearer"
        /\ reqs[r].auth.token.key = JWT_SECRET
        /\ StatusOfId(reqs[r].auth.token.id) = "blocked"

\* C15: conflicting block and unblock requests are last-writer-wins.  Whatever
\* other requests are in flight, the UPDATE of a request that passed the gate
\* leaves its target with the status that request asks for, the status changes
\* in no other step, and the request is then answered 200; so after several
\* UPDATEs on one target the status is the one the last of them wrote.  A
\* status is never anything but 'active' or 'blocked'.
C15_LastWriterWins ==
    /\ [][/\ \A r \in Reqs :
              /\ (Mutating(r) /\ reqs[r].pc = "q2" /\ reqs'[r].pc # "q2")
                    => /\ reqs'[r].pc = "r2"
                       /\ users'[reqs[r].target].status =
                              IF reqs[r].kind = "block" THEN "blocked" ELSE "active"
                       /\ \A i \in Ids \ {reqs[r].target} : users'[i] = users[i]
              /\ (Mutating(r) /\ reqs[r].pc = "r2" /\ reqs'[r].pc # "r2")
                    => /\ reqs'[r].pc = "done"
                       /\ reqs'[r].resp = Resp(200, "")
          /\ (\E i \in Ids : users'[i].status # users[i].status)
                => \E w \in Reqs : Mutating(w) /\ reqs[w].pc = "q2"
                                     /\ reqs'[w].pc = "r2"]_vars
    /\ [](\A i \in Ids : users[i].status \in {"active", "blocked"})

C15_Witness ==
    \E r, q \in Reqs :
        /\ Done(r) /\ reqs[r].kind = "block" /\ reqs[r].resp = Resp(200, "")
        /\ reqs[r].wrote
        /\ reqs[q].kind = "unblock" /\ reqs[q].pc = "r2" /\ reqs[q].wrote
        /\ reqs[q].target = reqs[r].target
        /\ StatusOfId(reqs[r].target) = "active"

\* C16: what a token may do follows the store's current state.  With tokens
\* issued before their holder was blocked and no login since: a block/unblock
\* request whose token is within its expiry on arrival is admitted to the
\* status read; there it is rejected 403 when the holder's row is blocked and
\* goes on to its UPDATE when the row is active, as it is again after an
\* unblock; a request that goes on is answered 200.
C16_AuthorityFollowsStore ==
    [][\A r \in Reqs :
          /\ (/\ reqs[r].kind = "idle" /\ Mutating(r)'
              /\ now < reqs'[r].auth.token.exp)
                => reqs'[r].pc = "q1"
          /\ (Mutating(r) /\ reqs[r].pc = "q1" /\ reqs'[r].pc # "q1")
                => IF StatusOfId(reqs[r].auth.token.id) = "blocked"
                   THEN /\ reqs'[r].pc = "done"
                        /\ reqs'[r].resp = BlockedReply
                        /\ users' = users
                   ELSE reqs'[r].pc = "q2"
          /\ (Mutating(r) /\ reqs[r].pc = "q2" /\ reqs'[r].pc # "q2")
                => reqs'[r].pc = "r2"
          /\ (Mutating(r) /\ reqs[r].pc = "r2" /\ reqs'[r].pc # "r2")
                => reqs'[r].resp = Resp(200, "")]_vars

C16_Witness ==
    \E r \in Reqs :
        /\ Done(r) /\ Mutating(r) /\ reqs[r].resp = Resp(200, "")
        /\ reqs[r].auth.token = TokenOf(1)
        /\ reqs[r].target = 2
        /\ now > 0
        /\ StatusOfId(1) = "active"

\* C17: a list answered 200 holds every row of the table exactly once, each as
\* the five fields id, name, email, last_login, status and no password, in
\* descending order of last_login; so a user whose last_login is later than
\* every other row's (one who logged in after every other login and
\* registration) is the first entry.
C17_ListAllByLastLogin ==
    \A r \in Reqs :
        (Done(r) /\ reqs[r].kind = "list" /\ reqs[r].resp.status = 200)
            => LET list == reqs[r].resp.users
               IN  /\ Len(list) = Len(users)
                   /\ \A u \in Ids : \E i \in 1..Len(list) :
                         /\ list[i].id = users[u].id
                         /\ list[i].name = users[u].name
                         /\ list[i].email = users[u].email
                         /\ list[i].last_login = users[u].last_login
                         /\ list[i].status = users[u].status
                   /\ \A i \in 1..Len(list) :
                         DOMAIN list[i] = {"id", "name", "email", "last_login", "status"}
                   /\ \A i, j \in 1..Len(list) :
                         i < j => list[i].last_login >= list[j].last_login
                   /\ \A u \in Ids :
                         (\A v \in Ids \ {u} : users[v].last_login < users[u].last_login)
                             => list[1].id = users[u].id

C17_Witness ==
    \E r \in Reqs :
        /\ Done(r) /\ reqs[r].kind = "list" /\ reqs[r].resp.status = 200
        /\ Len(reqs[r].resp.users) = 2
        /\ reqs[r].resp.users[1].id = 1
        /\ reqs[r].resp.users[1].last_login > reqs[r].resp.users[2].last_login
        /\ reqs[r].resp.users[2].last_login > 0
        /\ reqs[r].auth.token.id = 1
        /\ reqs[r].auth.token.iat = reqs[r].resp.users[1].last_login

\* C18: a page's roster is only ever what the list endpoint returned to it.
\* The roster changes only when the page receives the 200 response of its own
\* GET /api/users, to the list in that response (or starts empty when the page
\* loads); a signal received while the page holds a token makes it call
\* fetchUsers and leaves the roster as it is; and the GET carries the page's
\* token.
C18_RosterFromListOnly ==
    [][\A s \in Sockets :
          /\ clients'[s].roster # clients[s].roster
                => \/ /\ clients[s].slot # 0
                      /\ reqs[clients[s].slot].kind = "list"
                      /\ reqs[clients[s].slot].pc = "done"
                      /\ reqs[clients[s].slot].resp.status = 200
                      /\ clients'[s].roster = reqs[clients[s].slot].resp.users
                   \/ /\ clients'[s].roster = <<>>
                      /\ (s \in connected) # (s \in connected')
          /\ (inbox'[s] < inbox[s] /\ s \in connected' /\ clients[s].token # NoToken)
                => /\ clients'[s].due = clients[s].due + 1
                   /\ clients'[s].roster = clients[s].roster
          /\ (clients[s].slot = 0 /\ clients'[s].slot # 0)
                => /\ reqs'[clients'[s].slot].kind = "list"
                   /\ reqs'[clients'[s].slot].auth =
                          [scheme |-> "Bearer", token |-> clients[s].token]]_vars

\* The page behind socket s is connected and holds a token that verifies now.
Holds(s) ==
    /\ s \in connected
    /\ clients[s].token # NoToken
    /\ JwtVerify(clients[s].token, now)

\* The page's roster is the list the store would return now.
Synced(s) ==
    \E p \in Orderings : clients[s].roster = [i \in Ids |-> Project(users[p[i]])]

\* The UPDATE of a block or unblock has matched a row and is not yet answered.
Committed == \E r \in Reqs : Mutating(r) /\ reqs[r].pc = "r2"

\* C19: under fair delivery and fair scheduling, a connected page that holds a
\* valid token and is sent the signal of a successful block or unblock
\* eventually has a GET /api/users at the server, and eventually shows the
\* store's current user list unless another block or unblock commits first
\* (or the page stops holding a valid token or closes).
C19_EventuallyRefetched ==
    \A s \in Sockets :
        /\ (inbox[s] > 0 /\ Holds(s)) ~> (clients[s].slot # 0 \/ ~Holds(s))
        /\ (inbox[s] > 0 /\ Holds(s)) ~> (Synced(s) \/ Committed \/ ~Holds(s))

\* Every user row is blocked.
AllBlocked ==
    /\ Len(users) > 0
    /\ \A i \in Ids : users[i].status = "blocked"

\* C20: once every user row is blocked (a caller may block itself: the gate
\* does not forbid it), no login is answered with a token, no UPDATE of a
\* block/unblock request commits and no status changes, for as long as every
\* row is blocked, that is until a new user registers.
C20_LockoutPersists ==
    [][AllBlocked
          => /\ \A r \in Reqs :
                  /\ (reqs[r].kind = "login" /\ reqs[r].pc # "done"
                      /\ reqs'[r].pc = "done")
                        => (reqs'[r].resp.status # 200 /\ reqs'[r].resp.token = NoToken)
                  /\ ~(Mutating(r) /\ reqs[r].pc = "q2" /\ reqs'[r].pc = "r2")
             /\ \A i \in Ids : users'[i].status = users[i].status]_vars

\* The response of the loop's request reaches the page behind socket s.
BatchReplied(s) ==
    /\ clients[s].batch.slot # 0
    /\ reqs[clients[s].batch.slot].pc = "done"
    /\ reqs'[clients[s].batch.slot].pc = "idle"

\* The loop of the page behind socket s goes on after the id at pos: to the
\* next id, or, after the last one, to its end, where the selection is cleared.
BatchContinues(s) ==
    IF clients[s].batch.pos < Len(clients[s].batch.ids)
    THEN clients'[s].batch =
            [clients[s].batch EXCEPT !.pos = @ + 1, !.slot = 0]
    ELSE clients'[s].batch = NoBatch /\ clients'[s].selected = <<>>

\* C21: the batch action processes the selected ids one request at a time, in
\* selection order, with the page's token.  The first 403 response logs the
\* page out (its token is dropped) and ends the call, so that no request is
\* sent for the remaining ids, and leaves the selection as it is; after any
\* other response, OK or not, the loop goes on with the next id; the call
\* changes the selection only at the end of the loop, where it clears it.
C21_BatchStopsOn403 ==
    [][/\ \A s \in Sockets :
            /\ (clients[s].batch = NoBatch /\ clients'[s].batch # NoBatch)
                  => /\ clients'[s].batch.ids = clients[s].selected
                     /\ clients'[s].batch.token = clients[s].token
                     /\ clients'[s].batch.pos = 1
                     /\ clients'[s].batch.slot = 0
            /\ BatchReplied(s)
                  => /\ reqs[clients[s].batch.slot].resp.status = 403
                           => /\ clients'[s].token = NoToken
                              /\ clients'[s].batch = NoBatch
                              /\ clients'[s].selected = clients[s].selected
                     /\ reqs[clients[s].batch.slot].resp.status # 403
                           => BatchContinues(s)
       /\ \A r \in Reqs :
            (reqs[r].kind = "idle" /\ reqs'[r].kind \in Actions)
                  => \E s \in Sockets :
                        /\ clients[s].batch # NoBatch
                        /\ clients[s].batch.slot = 0 /\ clients'[s].batch.slot = r
                        /\ reqs'[r].kind = clients[s].batch.action
                        /\ reqs'[r].target = clients[s].batch.ids[clients[s].batch.pos]
                        /\ reqs'[r].auth =
                              [scheme |-> "Bearer", token |-> clients[s].batch.token]]_vars
====
